---- MODULE Spec2Model ----
(***************************************************************************)
(* Gitignore language server: the pattern parser (servers/gitignore and    *)
(* the older server crate), the span-annotated parse tree and its queries, *)
(* the AST derivation, the path completion, the diagnostics, the text      *)
(* buffers of the workspace and the Backend's handlers over them.          *)
(*                                                                         *)
(* Text is a sequence of one-character strings; offsets are 0-based as in  *)
(* the source, so the character at offset p of s is s[p + 1].              *)
(***************************************************************************)
EXTENDS Integers, Sequences, FiniteSets, TLC

\* Longest text enumerated exhaustively over Alphabet.
MaxLen == 4

\* Characters of the exhaustive enumeration: an ordinary character, the
\* separator, the line terminator, the negation mark, the comment mark and
\* a whitespace character.
Alphabet == {"a", "/", "\n", "!", "#", " "}

\* Most lines of a text joined from LineShapes.
MaxLines == 3

\* Lines joined into longer texts: a blank line, a plain pattern, a line
\* with two adjacent separators, a comment, a lone separator followed by
\* whitespace, a negated pattern with a trailing separator, and a pattern
\* that ends in a backslash-escaped space.
LineShapes ==
    { <<>>, <<"a">>, <<"/", "/">>, <<"#">>, <<"/", " ">>, <<"!", "a", "/">>,
      <<"c", "\\", " ">> }

RECURSIVE JoinLines(_)
JoinLines(ls) ==
    IF Len(ls) = 1 THEN ls[1] ELSE ls[1] \o <<"\n">> \o JoinLines(Tail(ls))

\* Inputs used by the repository's own tests and by the specification.
TestInputs ==
    { <<"a", "/", "b", "/", "c">>,
      <<"a", "/", "/", "b", "/", "c">>,
      <<"/", "/", "b", "/", "c">>,
      <<"!", "a", "/", "b", "/", "c", "\n", "/", "d", "/", "e">>,
      <<"a", "/", "b", "/", "c", "\\", " ", "d", " ", " ", "\n">>,
      <<"\\", "#", "n", "o", "t", "/", "a", "/", "c", "o", "m", "m", "e", "n", "t">>,
      <<"\\", "!", "a", "/", "b", "/", "c">>,
      <<"a", "/", "b", "\n", "#", " ", "a", " ", "c", "o", "m", "m", "e", "n", "t">>,
      <<"!", "a", "/", "b">>,
      <<" ", " ", " ", "\n">> }

\* The texts parsed: every text of at most MaxLen characters of Alphabet,
\* every text of at most MaxLines lines of LineShapes, and TestInputs.
Texts ==
    (UNION { [1..n -> Alphabet] : n \in 0..MaxLen })
    \cup { JoinLines(ls) : ls \in UNION { [1..n -> LineShapes] : n \in 1..MaxLines } }
    \cup TestInputs

----------------------------------------------------------------------------
(* Characters and strings *)

\* The character at offset p, or "EOF" at and past the end of input.
At(s, p) == IF p < Len(s) THEN s[p + 1] ELSE "EOF"

\* chumsky::text::newline, on the characters of the alphabet.
newline(s, p) == At(s, p) = "\n"

\* chumsky end()
end(s, p) == p >= Len(s)

\* char::is_whitespace on the characters of the alphabet
is_whitespace(c) == c \in {" ", "\n"}

RECURSIVE trim_start(_)
trim_start(x) ==
    IF x # <<>> /\ is_whitespace(Head(x)) THEN trim_start(Tail(x)) ELSE x

RECURSIVE trim_end(_)
trim_end(x) ==
    IF x # <<>> /\ is_whitespace(x[Len(x)])
    THEN trim_end(SubSeq(x, 1, Len(x) - 1))
    ELSE x

\* str::trim: whitespace removed at both ends
trim(x) == trim_end(trim_start(x))

----------------------------------------------------------------------------
(* Tokens of the parse tree (parser.rs, enum Token).  Every token carries  *)
(* the same fields; value is used by Segment, children by File and Path.   *)

Token(k, st, en, v, ch) ==
    [kind |-> k, start |-> st, end |-> en, value |-> v, children |-> ch]

File(st, en, ch)    == Token("File", st, en, <<>>, ch)
Path(st, en, ch)    == Token("Path", st, en, <<>>, ch)
Segment(st, en, v)  == Token("Segment", st, en, v, <<>>)
Separator(st, en)   == Token("Separator", st, en, <<>>, <<>>)
Negate(st, en)      == Token("Negate", st, en, <<>>, <<>>)
Comment(st, en)     == Token("Comment", st, en, <<>>, <<>>)

\* Option::None of a token
None == Token("None", 0, 0, <<>>, <<>>)

\* Result of a parser combinator: ok, the tokens produced and the offset
\* reached (on failure the input is rewound to where the combinator began).
POk(toks, p) == [ok |-> TRUE, toks |-> toks, pos |-> p]
PErr(p)      == [ok |-> FALSE, toks |-> <<>>, pos |-> p]

----------------------------------------------------------------------------
(* The grammar of servers/gitignore/src/parser.rs.  A combinator that      *)
(* follows another takes the other's result as its argument and starts at  *)
(* the offset that result reached.                                         *)

\* a.then(b)
then(a, b) ==
    IF a.ok /\ b.ok THEN POk(a.toks \o b.toks, b.pos) ELSE PErr(a.pos)

\* parser.or_not() at offset p: nothing consumed, no token on failure
or_not(r, p) == IF r.ok THEN r ELSE POk(<<>>, p)

\* any().and_is(newline().not()).and_is(end().not()).repeated(): the offset
\* after the longest run of characters that are not a line terminator.
RECURSIVE comment_run(_, _)
comment_run(s, p) ==
    IF ~end(s, p) /\ ~newline(s, p) THEN comment_run(s, p + 1) ELSE p

\* Mutant of comment_token: the span leaves the '#' out.
comment_token_after_mark(p, q) == POk(<<Comment(p + 1, q)>>, q)

\* .map_with: the Comment token over the '#' and the run
comment_token(p, q) == POk(<<Comment(p, q)>>, q)

comment(s, p) ==
    IF At(s, p) = "#" THEN comment_token(p, comment_run(s, p + 1)) ELSE PErr(p)

\* The offset after the longest run of segment characters starting at p.
RECURSIVE segment_run(_, _)
segment_run(s, p) ==
    IF ~end(s, p) /\ ~newline(s, p) /\ At(s, p) # "/"
    THEN segment_run(s, p + 1)
    ELSE p

\* Mutant of segment_token: the value is the run as collected, not trimmed.
segment_token_untrimmed(s, p, q) ==
    IF q >= p + 1
    THEN POk(<<Segment(p, q, SubSeq(s, p + 1, q))>>, q)
    ELSE PErr(p)

\* at_least(1), collect, trim, and the span of the run [p, q)
segment_token(s, p, q) ==
    IF q >= p + 1
    THEN POk(<<Segment(p, q, trim(SubSeq(s, p + 1, q)))>>, q)
    ELSE PErr(p)

segment(s, p) == segment_token(s, p, segment_run(s, p))

negate(s, p) ==
    IF At(s, p) = "!" THEN POk(<<Negate(p, p + 1)>>, p + 1) ELSE PErr(p)

\* Mutant of separator: the token is a zero-width marker.
separator_zero_width(s, p) ==
    IF At(s, p) = "/" THEN POk(<<Separator(p, p)>>, p + 1) ELSE PErr(p)

separator(s, p) ==
    IF At(s, p) = "/" THEN POk(<<Separator(p, p + 1)>>, p + 1) ELSE PErr(p)

\* separator.then(segment), given the separator's result
separator_then_segment(s, a) ==
    IF a.ok THEN then(a, segment(s, a.pos)) ELSE a

\* separator.then(segment).repeated(), flattened: r is the first pair's
\* result; a failed pair ends the repetition at offset p.
RECURSIVE separator_segments(_, _)
repeated(s, p, r) ==
    IF r.ok THEN then(r, separator_segments(s, r.pos)) ELSE POk(<<>>, p)

separator_segments(s, p) ==
    repeated(s, p, separator_then_segment(s, separator(s, p)))

\* negate.or_not()
path_negate(s, p) == or_not(negate(s, p), p)

\* .then(segment.or_not())
path_segment(s, a) == then(a, or_not(segment(s, a.pos), a.pos))

\* .then(separator.then(segment).repeated()...)
path_repeated(s, b) == then(b, separator_segments(s, b.pos))

\* .then(separator.or_not())
path_separator(s, c) == then(c, or_not(separator(s, c.pos), c.pos))

\* Mutant of path_token: the span is empty, at the offset reached.
path_token_at_end(p, d) == POk(<<Path(d.pos, d.pos, d.toks)>>, d.pos)

\* .map_with: the Path token over everything consumed
path_token(p, d) == POk(<<Path(p, d.pos, d.toks)>>, d.pos)

path(s, p) ==
    path_token(p,
        path_separator(s, path_repeated(s, path_segment(s, path_negate(s, p)))))

\* Mutant of choice: the second alternative is tried first.
choice_second_first(c, alt) == IF alt.ok THEN alt ELSE c

\* choice((comment, path)); path never fails
choice(c, alt) == IF c.ok THEN c ELSE alt

line(s, p) == choice(comment(s, p), path(s, p))

\* A parse error (Rich): the span of the offending character and what was
\* found there.
Rich(s, p) ==
    [start |-> p, end |-> IF end(s, p) THEN p ELSE p + 1, found |-> At(s, p)]

\* skip_then_retry_until(any().ignored(), newline().or(end())) around
\* newline(), entered at offset p after newline() failed there.  Each turn:
\* give up when `until` matches here; skip one character; retry newline().
\* The result is the offset after the newline found, or -1 when recovery
\* fails.
RECURSIVE skip_then_retry_until(_, _)
skip_then_retry_until(s, p) ==
    IF newline(s, p) \/ end(s, p) THEN -1
    ELSE IF newline(s, p + 1) THEN p + 2
    ELSE skip_then_retry_until(s, p + 1)

\* Mutant of recover_with: the recovery emits no error.
recover_with_silent(s, p, r) ==
    IF r >= 0
    THEN [ok |-> TRUE, pos |-> r, errs |-> <<>>]
    ELSE [ok |-> FALSE, pos |-> p, errs |-> <<>>]

\* recover_with: a successful recovery emits the error of the failed
\* newline(); a failed one rewinds to p.
recover_with(s, p, r) ==
    IF r >= 0
    THEN [ok |-> TRUE, pos |-> r, errs |-> <<Rich(s, p)>>]
    ELSE [ok |-> FALSE, pos |-> p, errs |-> <<>>]

\* newline().recover_with(...): the offset after the separator and the
\* errors emitted, or failure.
line_separator(s, p) ==
    IF newline(s, p) THEN [ok |-> TRUE, pos |-> p + 1, errs |-> <<>>]
    ELSE recover_with(s, p, skip_then_retry_until(s, p))

\* choice((comment, path)).separated_by(...).collect(): the items from
\* offset p on.  A separator that fails ends the list after the item before
\* it; every separator that succeeds is followed by an item.
RECURSIVE lines(_, _)
lines_collect(item, sep, rest) ==
    [toks |-> item.toks \o rest.toks, pos |-> rest.pos,
     errs |-> sep.errs \o rest.errs]

lines_after_separator(s, item, sep) ==
    IF sep.ok
    THEN lines_collect(item, sep, lines(s, sep.pos))
    ELSE [toks |-> item.toks, pos |-> item.pos, errs |-> <<>>]

lines_after_item(s, item) ==
    lines_after_separator(s, item, line_separator(s, item.pos))

lines(s, p) == lines_after_item(s, line(s, p))

\* parse(input).into_output_errors(): the File token is the output when the
\* whole input was consumed; otherwise there is no output and the error at
\* the offset reached is added to the errors emitted by recovery.
into_output_errors(s, r) ==
    IF end(s, r.pos)
    THEN [out |-> File(0, r.pos, r.toks), errs |-> r.errs]
    ELSE [out |-> None, errs |-> r.errs \o <<Rich(s, r.pos)>>]

parser(s) == into_output_errors(s, lines(s, 0))

\* ParseTree::generate_from
ParseTree_generate_from(s) == parser(s)

----------------------------------------------------------------------------
(* The grammar of the older crate, server/src/parser.rs: the same          *)
(* combinators, tokens without spans, and a path that takes an optional    *)
(* separator between the negation and the first segment.                   *)

\* negate.or_not().then(separator.or_not())
server_path_separator(s, a) == then(a, or_not(separator(s, a.pos), a.pos))

server_path(s, p) ==
    path_token(p,
        path_separator(s, path_repeated(s, path_segment(s,
            server_path_separator(s, path_negate(s, p))))))

server_line(s, p) == choice(comment(s, p), server_path(s, p))

RECURSIVE server_lines(_, _)
server_lines_after_separator(s, item, sep) ==
    IF sep.ok
    THEN lines_collect(item, sep, server_lines(s, sep.pos))
    ELSE [toks |-> item.toks, pos |-> item.pos, errs |-> <<>>]

server_lines_after_item(s, item) ==
    server_lines_after_separator(s, item, line_separator(s, item.pos))

server_lines(s, p) == server_lines_after_item(s, server_line(s, p))

\* The older Token has no span: File(Vec), Path(Vec), Segment(String), ...
RECURSIVE server_token(_)
server_token(t) ==
    [kind |-> t.kind, value |-> t.value,
     children |-> [i \in 1..Len(t.children) |-> server_token(t.children[i])]]

server_output(r) == [out |-> server_token(r.out), errs |-> r.errs]

server_parser(s) == server_output(into_output_errors(s, server_lines(s, 0)))

----------------------------------------------------------------------------
(* Queries on the parse tree (parser.rs, impl Token) *)

\* Token::get_children is Some for File and Path only
has_children(t) == t.kind \in {"File", "Path"}

\* The test of get_child_at_position on one child
child_at_position(child, position) ==
    /\ child.start <= position
    /\ (child.start = child.end \/ child.end > position)

\* Token::get_child_at_position, the loop from child i on; Some(t) is t,
\* Option::None is None
RECURSIVE get_child_at_position_from(_, _, _)
get_child_at_position_from(self, i, position) ==
    IF ~has_children(self) THEN None
    ELSE IF i > Len(self.children) THEN self
    ELSE IF child_at_position(self.children[i], position)
         THEN IF has_children(self.children[i])
              THEN get_child_at_position_from(self.children[i], 1, position)
              ELSE self.children[i]
         ELSE get_child_at_position_from(self, i + 1, position)

get_child_at_position(self, position) ==
    get_child_at_position_from(self, 1, position)

\* Mutant of path_filter: the end of the span is excluded.
path_filter_half_open(t, position) ==
    t.start <= position /\ t.end > position /\ t.kind = "Path"

\* The filter closure of generate_path_completions
path_filter(t, position) ==
    t.start <= position /\ t.end >= position /\ t.kind = "Path"

\* Token::get_first_child_filtered with that closure: the children from
\* index i on, each before its own descendants.
RECURSIVE first_child_filtered_from(_, _, _)
first_or_next(self, i, position, below) ==
    IF below # None THEN below
    ELSE first_child_filtered_from(self, i + 1, position)

first_child_filtered_from(self, i, position) ==
    IF ~has_children(self) \/ i > Len(self.children) THEN None
    ELSE IF path_filter(self.children[i], position) THEN self.children[i]
    ELSE first_or_next(self, i, position,
             first_child_filtered_from(self.children[i], 1, position))

get_first_child_filtered(self, position) ==
    first_child_filtered_from(self, 1, position)

----------------------------------------------------------------------------
(* Completions (features/completions.rs) *)

\* Mutant of path_piece: a Separator adds nothing.
path_piece_without_separator(child) ==
    IF child.kind = "Segment" THEN child.value ELSE <<>>

\* What one child adds to the path typed so far
path_piece(child) ==
    CASE child.kind = "Segment"   -> child.value
      [] child.kind = "Separator" -> <<"/">>
      [] OTHER                    -> <<>>

\* Mutant of path_until: the loop stops after current_node, not before it.
RECURSIVE path_until_inclusive(_, _, _)
path_until_inclusive(children, i, current_node) ==
    IF i > Len(children) THEN <<>>
    ELSE IF children[i] = current_node THEN path_piece(children[i])
    ELSE path_piece(children[i])
         \o path_until_inclusive(children, i + 1, current_node)

\* The loop over the children of the line, stopped at current_node
RECURSIVE path_until(_, _, _)
path_until(children, i, current_node) ==
    IF i > Len(children) \/ children[i] = current_node THEN <<>>
    ELSE path_piece(children[i]) \o path_until(children, i + 1, current_node)

CompletionItem(text) == [label |-> text, detail |-> text, insert_text |-> text]

NoCompletions == [some |-> FALSE, items |-> <<>>]

\* The single item, once the line and the node at the position are found
completions_of(l, current_node) ==
    IF current_node = None THEN NoCompletions
    ELSE [some |-> TRUE,
          items |-> <<CompletionItem(path_until(l.children, 1, current_node))>>]

completions_in(l, position) ==
    IF l = None THEN NoCompletions
    ELSE completions_of(l, get_child_at_position(l, position))

\* Completions::generate_path_completions
generate_path_completions(tree, position) ==
    completions_in(get_first_child_filtered(tree, position), position)

----------------------------------------------------------------------------
(* The AST (ast.rs) *)

Node(k, v, ch) == [kind |-> k, value |-> v, children |-> ch]

NoNode == Node("None", <<>>, <<>>)

\* filter_map keeps the Some results
some(n) == IF n = NoNode THEN <<>> ELSE <<n>>

\* Mutant of path_node: a Path with no mapped child is kept.
path_node_keeps_empty(children) == Node("Path", <<>>, children)

\* A Path with no mapped child is dropped
path_node(children) ==
    IF children = <<>> THEN NoNode ELSE Node("Path", <<>>, children)

\* AST::visit_token, with visit_tokens (filter_map) over the children
RECURSIVE visit_token(_)
RECURSIVE visit_tokens_from(_, _)
visit_tokens_from(tokens, i) ==
    IF i > Len(tokens) THEN <<>>
    ELSE some(visit_token(tokens[i])) \o visit_tokens_from(tokens, i + 1)

visit_tokens(tokens) == visit_tokens_from(tokens, 1)

\* Mutant of visit_token: a Separator becomes a Segment "/".
visit_token_keeps_separator(token) ==
    CASE token.kind = "File" -> Node("File", <<>>, visit_tokens(token.children))
      [] token.kind = "Path" -> path_node(visit_tokens(token.children))
      [] token.kind = "Segment" ->
           IF token.value = <<>> THEN NoNode ELSE Node("Segment", token.value, <<>>)
      [] token.kind = "Negate" -> Node("Negate", <<>>, <<>>)
      [] token.kind = "Separator" -> Node("Segment", <<"/">>, <<>>)
      [] OTHER -> NoNode

visit_token(token) ==
    CASE token.kind = "File" -> Node("File", <<>>, visit_tokens(token.children))
      [] token.kind = "Path" -> path_node(visit_tokens(token.children))
      [] token.kind = "Segment" ->
           IF token.value = <<>> THEN NoNode ELSE Node("Segment", token.value, <<>>)
      [] token.kind = "Negate" -> Node("Negate", <<>>, <<>>)
      [] OTHER -> NoNode

AST_generate_from(tree) == visit_token(tree)

----------------------------------------------------------------------------
(* The text buffer, lsp_workspace::file::File.  Offsets count characters   *)
(* from 0; a position is a line and a character in the line, both from 0.  *)

\* File::new
File_new(uri, text) == [url |-> uri, content |-> text]

\* No entry of the DashMap for a key
NoFile == [url |-> "", content |-> <<>>]

\* File::get_content
get_content(file) == file.content

\* The offset at which the l-th line of text starts, scanning from p
RECURSIVE line_offset(_, _, _)
line_offset(text, l, p) ==
    IF l = 0 \/ p >= Len(text) THEN p
    ELSE IF text[p + 1] = "\n" THEN line_offset(text, l - 1, p + 1)
    ELSE line_offset(text, l, p + 1)

\* File::get_offset_at(line, character)
get_offset_at(file, l, character) ==
    line_offset(file.content, l, 0) + character

\* The offsets up to offset that follow a newline, and 0
line_offsets_until(text, offset) ==
    {0} \cup { q \in 1..offset : text[q] = "\n" }

\* File::get_position_at: the line and the character of an offset
get_position_at(file, offset) ==
    [line |-> Cardinality(line_offsets_until(file.content, offset)) - 1,
     character |->
         offset - (CHOOSE q \in line_offsets_until(file.content, offset) :
                       \A r \in line_offsets_until(file.content, offset) : r <= q)]

\* TextDocumentContentChangeEvent: a change of the whole text has no range
NoRange == [start |-> [line |-> -1, character |-> -1],
            end |-> [line |-> -1, character |-> -1]]

\* The text with the characters of [from, to) replaced
replace_range(content, from, to, text) ==
    SubSeq(content, 1, from) \o text \o SubSeq(content, to + 1, Len(content))

\* File::apply_change
apply_change(file, change) ==
    IF change.range = NoRange
    THEN [file EXCEPT !.content = change.text]
    ELSE [file EXCEPT !.content =
              replace_range(@,
                  get_offset_at(file, change.range.start.line,
                                change.range.start.character),
                  get_offset_at(file, change.range.end.line,
                                change.range.end.character),
                  change.text)]

\* Workspace::apply_changes, the loop: each change on the text the previous
\* one left
RECURSIVE apply_changes(_, _)
apply_changes(file, content_changes) ==
    IF content_changes = <<>> THEN file
    ELSE apply_changes(apply_change(file, Head(content_changes)),
                       Tail(content_changes))

----------------------------------------------------------------------------
(* Diagnostics (features/diagnostics.rs) *)

\* Rich's Display: what was found where something else was expected
to_string(error) == <<"found", error.found>>

\* A Diagnostic whose range is the position of the start of the span
Diagnostic_at_start(error, file) ==
    [range |-> [start |-> get_position_at(file, error.start),
                end |-> get_position_at(file, error.start)],
     severity |-> "ERROR",
     source |-> "Gitignore Ultimate",
     message |-> to_string(error)]

\* The Diagnostic of one error
Diagnostic(error, file) ==
    [range |-> [start |-> get_position_at(file, error.start),
                end |-> get_position_at(file, error.end)],
     severity |-> "ERROR",
     source |-> "Gitignore Ultimate",
     message |-> to_string(error)]

\* Diagnostics::generate
Diagnostics_generate(errs, file) ==
    [i \in 1..Len(errs) |-> Diagnostic(errs[i], file)]

----------------------------------------------------------------------------
VARIABLES
    input,        \* the text handed to the parser
    pc,           \* the last operation applied
    parse_tree,   \* Option<ParseTree> returned by ParseTree::generate_from
    errors,       \* Vec<Rich<char>> returned by ParseTree::generate_from
    ast,          \* root of the AST derived from parse_tree
    self,         \* the token get_child_at_position was called on
    position,     \* the offset of the last query
    node,         \* Option<&Token> returned by get_child_at_position
    completions,  \* Option<CompletionResponse> of generate_path_completions
    diagnostics,  \* Vec<Diagnostic> returned by Diagnostics::generate
    server_tree,  \* output of the older crate's parser
    server_errors, \* errors of the older crate's parser
    files,        \* Backend.workspace.files: the File of each key
    parse_trees,  \* Backend.parse_trees: the ParseTree of each key
    asts,         \* Backend.asts: the root of the AST of each key
    refresh,      \* refresh_ast of each uri, waiting at publish_diagnostics
    published,    \* the diagnostics the client last received for each uri
    sent,         \* the notifications the last step sent to the client
    replaced,     \* what the client held before the last step's publish
    last,         \* the last step of a handler
    response,     \* the last result of Backend::completion
    calls         \* the number of handlers called

\* The variables of the parser and its queries
parser_vars == <<input, pc, parse_tree, errors, ast, self, position, node,
                 completions, diagnostics, server_tree, server_errors>>

\* The variables of the Backend
backend_vars ==
    <<files, parse_trees, asts, refresh, published, sent, replaced, last,
      response, calls>>

vars == <<input, pc, parse_tree, errors, ast, self, position, node,
          completions, diagnostics, server_tree, server_errors,
          files, parse_trees, asts, refresh, published, sent, replaced, last,
          response, calls>>

\* Documents, named as in the workspace's test
Uris == {"file:///a", "file:///b"}

\* refresh_ast is not running
Idle == [state |-> "idle", out |-> None, diagnostics |-> <<>>]

\* The client has received no diagnostics
NotPublished == [some |-> FALSE, diagnostics |-> <<>>]

\* client.publish_diagnostics(uri, diagnostics, None)
publish_diagnostics(uri, diags) ==
    [method |-> "textDocument/publishDiagnostics", uri |-> uri,
     diagnostics |-> diags]

\* client.log_message(MessageType::ERROR, error)
log_message(uri) ==
    [method |-> "window/logMessage", uri |-> uri, diagnostics |-> <<>>]

\* Backend::new: empty maps, no handler running
Backend_new ==
    /\ files = [u \in Uris |-> NoFile]
    /\ parse_trees = [u \in Uris |-> None]
    /\ asts = [u \in Uris |-> NoNode]
    /\ refresh = [u \in Uris |-> Idle]
    /\ published = [u \in Uris |-> NotPublished]
    /\ sent = <<>>
    /\ replaced = NotPublished
    /\ last = [op |-> "new", uri |-> "", ok |-> TRUE]
    /\ response = NoCompletions
    /\ calls = 0

\* Offsets a query is made at: every offset of the text and two past it.
Positions(s) == 0..(Len(s) + 1)

Init ==
    /\ input \in Texts
    /\ pc = "start"
    /\ parse_tree = None
    /\ errors = <<>>
    /\ ast = NoNode
    /\ self = None
    /\ position = 0
    /\ node = None
    /\ completions = NoCompletions
    /\ diagnostics = <<>>
    /\ server_tree = server_token(None)
    /\ server_errors = <<>>
    /\ Backend_new

\* let (tree, errors) = ...
returned(r) == parse_tree' = r.out /\ errors' = r.errs

server_returned(r) == server_tree' = r.out /\ server_errors' = r.errs

\* ParseTree::generate_from(input)
generate_from ==
    /\ pc = "start"
    /\ returned(ParseTree_generate_from(input))
    /\ pc' = "generate_from"
    /\ UNCHANGED <<input, ast, self, position, node, completions,
                   diagnostics, server_tree, server_errors>>
    /\ UNCHANGED backend_vars

\* AST::generate_from(parse_tree)
derive_ast ==
    /\ pc = "generate_from"
    /\ parse_tree # None
    /\ ast' = AST_generate_from(parse_tree)
    /\ pc' = "ast"
    /\ UNCHANGED <<input, parse_tree, errors, self, position, node,
                   completions, diagnostics, server_tree, server_errors>>
    /\ UNCHANGED backend_vars

\* root.get_child_at_position(p), or the same on one of the root's lines
child_at ==
    /\ pc = "generate_from"
    /\ parse_tree # None
    /\ \E p \in Positions(input) :
       \E t \in {parse_tree} \cup
                { parse_tree.children[i] : i \in 1..Len(parse_tree.children) } :
         /\ self' = t
         /\ position' = p
         /\ node' = get_child_at_position(t, p)
    /\ pc' = "get_child_at_position"
    /\ UNCHANGED <<input, parse_tree, errors, ast, completions,
                   diagnostics, server_tree, server_errors>>
    /\ UNCHANGED backend_vars

\* Completions::generate(parse_tree, p)
complete ==
    /\ pc = "generate_from"
    /\ parse_tree # None
    /\ \E p \in Positions(input) :
         /\ position' = p
         /\ completions' = generate_path_completions(parse_tree, p)
    /\ pc' = "completion"
    /\ UNCHANGED <<input, parse_tree, errors, ast, self, node,
                   diagnostics, server_tree, server_errors>>
    /\ UNCHANGED backend_vars

\* Diagnostics::generate(errors, file), file the buffer of the text parsed
diagnose ==
    /\ pc = "generate_from"
    /\ diagnostics' = Diagnostics_generate(errors, File_new("file:///a", input))
    /\ pc' = "diagnostics"
    /\ UNCHANGED <<input, parse_tree, errors, ast, self, position, node,
                   completions, server_tree, server_errors>>
    /\ UNCHANGED backend_vars

\* server: parser().parse(input)
server_parse ==
    /\ pc = "start"
    /\ server_returned(server_parser(input))
    /\ pc' = "server_parse"
    /\ UNCHANGED <<input, parse_tree, errors, ast, self, position, node,
                   completions, diagnostics>>
    /\ UNCHANGED backend_vars

Next ==
    \/ generate_from
    \/ derive_ast
    \/ child_at
    \/ complete
    \/ diagnose
    \/ server_parse

Spec == Init /\ [][Next]_vars

----------------------------------------------------------------------------
(* The Backend (servers/gitignore/src/main.rs) over the workspace          *)
(* (lsp-workspace/src/workspace.rs).  A handler runs without interruption  *)
(* up to an await that can suspend it: refresh_ast waits at                *)
(* publish_diagnostics with its Ref on the file still held.                *)

\* Most handlers called in a run
MaxCalls == 3

\* Texts a document is opened with, and replaced by as a whole: a pattern,
\* a malformed line that recovery skips, a malformed line at the end
OpenTexts == { <<"a">>, <<"/", "/", "\n">>, <<"a", "/", "/">> }

\* Positions used by the ranges of changes and by completion
EditPositions ==
    { [line |-> 0, character |-> 0], [line |-> 0, character |-> 1],
      [line |-> 1, character |-> 0] }

\* A change of the whole text
FullChanges == { [range |-> NoRange, text |-> t] : t \in OpenTexts }

\* Insertions of a separator or a newline at a position
Insertions ==
    { [range |-> [start |-> p, end |-> p], text |-> t] :
        p \in EditPositions, t \in { <<"/">>, <<"\n">> } }

\* Deletions of the first character and of the first line
Deletions ==
    { [range |-> [start |-> [line |-> 0, character |-> 0], end |-> q],
       text |-> <<>>] :
        q \in { [line |-> 0, character |-> 1], [line |-> 1, character |-> 0] } }

\* The lists of changes of one did_change: one change, or the whole text
\* followed by an insertion
ChangeLists ==
    { <<c>> : c \in FullChanges \cup Insertions \cup Deletions }
    \cup { <<c, d>> : c \in FullChanges, d \in Insertions }

\* The position is one of the text: get_position_at gives it back
valid_position(file, pos) ==
    /\ get_offset_at(file, pos.line, pos.character) <= Len(file.content)
    /\ get_position_at(file, get_offset_at(file, pos.line, pos.character)) = pos

\* The range of the change lies in the text, its start not after its end
valid_change(file, change) ==
    IF change.range = NoRange THEN TRUE
    ELSE /\ valid_position(file, change.range.start)
         /\ valid_position(file, change.range.end)
         /\ get_offset_at(file, change.range.start.line, change.range.start.character)
                <= get_offset_at(file, change.range.end.line, change.range.end.character)

\* Every change is valid in the text the changes before it left
RECURSIVE valid_changes(_, _)
valid_changes(file, content_changes) ==
    IF content_changes = <<>> THEN TRUE
    ELSE /\ valid_change(file, Head(content_changes))
         /\ valid_changes(apply_change(file, Head(content_changes)),
                          Tail(content_changes))

\* The Ref on the file is dropped before publish_diagnostics is awaited
Locked_until_await(uri) == FALSE

\* A Ref on the entry of uri in workspace.files is held: writers of the
\* entry (insert, get_mut, remove) wait for it
Locked(uri) == refresh[uri].state # "idle"

\* refresh_ast from the parse to publish_diagnostics(...).await
awaiting(r, file) ==
    [state |-> "publish_diagnostics", out |-> r.out,
     diagnostics |-> Diagnostics_generate(r.errs, file)]

\* Backend::refresh_ast up to its await; without a file it logs an error
\* and returns
refresh_ast(uri, file) ==
    refresh' =
        IF file = NoFile THEN refresh
        ELSE [refresh EXCEPT
                  ![uri] = awaiting(ParseTree_generate_from(get_content(file)), file)]

\* Backend::did_open: Workspace::open, then refresh_ast
did_open ==
    \E uri \in Uris, text \in OpenTexts :
        /\ calls < MaxCalls
        /\ ~Locked(uri)
        /\ files' = [files EXCEPT ![uri] = File_new(uri, text)]
        /\ refresh_ast(uri, File_new(uri, text))
        /\ last' = [op |-> "did_open", uri |-> uri, ok |-> TRUE]
        /\ sent' = <<>>
        /\ replaced' = NotPublished
        /\ UNCHANGED <<parse_trees, asts, published, response>>
        /\ calls' = calls + 1
        /\ UNCHANGED parser_vars

\* did_change over an apply_changes that takes the entry of the uri or
\* inserts an empty File for it
did_change_opens_unopened ==
    \E uri \in Uris, content_changes \in ChangeLists :
        /\ calls < MaxCalls
        /\ ~Locked(uri)
        /\ IF files[uri] = NoFile
           THEN /\ valid_changes(File_new(uri, <<>>), content_changes)
                /\ files' = [files EXCEPT
                       ![uri] = apply_changes(File_new(uri, <<>>), content_changes)]
                /\ refresh_ast(uri, apply_changes(File_new(uri, <<>>), content_changes))
                /\ last' = [op |-> "did_change", uri |-> uri, ok |-> TRUE]
                /\ sent' = <<>>
           ELSE /\ valid_changes(files[uri], content_changes)
                /\ files' = [files EXCEPT ![uri] = apply_changes(@, content_changes)]
                /\ refresh_ast(uri, apply_changes(files[uri], content_changes))
                /\ last' = [op |-> "did_change", uri |-> uri, ok |-> TRUE]
                /\ sent' = <<>>
        /\ replaced' = NotPublished
        /\ UNCHANGED <<parse_trees, asts, published, response>>
        /\ calls' = calls + 1
        /\ UNCHANGED parser_vars

\* Backend::did_change: Workspace::apply_changes; on Err the error is
\* logged and the handler returns, on Ok refresh_ast follows
did_change ==
    \E uri \in Uris, content_changes \in ChangeLists :
        /\ calls < MaxCalls
        /\ ~Locked(uri)
        /\ IF files[uri] = NoFile
           THEN /\ last' = [op |-> "did_change", uri |-> uri, ok |-> FALSE]
                /\ sent' = <<log_message(uri)>>
                /\ UNCHANGED <<files, refresh>>
           ELSE /\ valid_changes(files[uri], content_changes)
                /\ files' = [files EXCEPT ![uri] = apply_changes(@, content_changes)]
                /\ refresh_ast(uri, apply_changes(files[uri], content_changes))
                /\ last' = [op |-> "did_change", uri |-> uri, ok |-> TRUE]
                /\ sent' = <<>>
        /\ replaced' = NotPublished
        /\ UNCHANGED <<parse_trees, asts, published, response>>
        /\ calls' = calls + 1
        /\ UNCHANGED parser_vars

\* refresh_ast that publishes only a set with diagnostics in it
refresh_ast_resume_skips_empty ==
    \E uri \in Uris :
        /\ refresh[uri].state = "publish_diagnostics"
        /\ IF refresh[uri].diagnostics = <<>>
           THEN /\ sent' = <<>>
                /\ replaced' = NotPublished
                /\ UNCHANGED published
           ELSE /\ sent' = <<publish_diagnostics(uri, refresh[uri].diagnostics)>>
                /\ replaced' = published[uri]
                /\ published' = [published EXCEPT
                       ![uri] = [some |-> TRUE,
                                 diagnostics |-> refresh[uri].diagnostics]]
        /\ IF refresh[uri].out # None
           THEN /\ parse_trees' = [parse_trees EXCEPT ![uri] = refresh[uri].out]
                /\ asts' = [asts EXCEPT ![uri] = AST_generate_from(refresh[uri].out)]
           ELSE UNCHANGED <<parse_trees, asts>>
        /\ refresh' = [refresh EXCEPT ![uri] = Idle]
        /\ last' = [op |-> "refresh_ast", uri |-> uri, ok |-> TRUE]
        /\ UNCHANGED <<files, response, calls>>
        /\ UNCHANGED parser_vars

\* Backend::refresh_ast from publish_diagnostics on: the diagnostics reach
\* the client, the tree and its AST are cached when there is a tree, and
\* the Ref on the file is dropped
refresh_ast_resume ==
    \E uri \in Uris :
        /\ refresh[uri].state = "publish_diagnostics"
        /\ sent' = <<publish_diagnostics(uri, refresh[uri].diagnostics)>>
        /\ replaced' = published[uri]
        /\ published' = [published EXCEPT
               ![uri] = [some |-> TRUE, diagnostics |-> refresh[uri].diagnostics]]
        /\ IF refresh[uri].out # None
           THEN /\ parse_trees' = [parse_trees EXCEPT ![uri] = refresh[uri].out]
                /\ asts' = [asts EXCEPT ![uri] = AST_generate_from(refresh[uri].out)]
           ELSE UNCHANGED <<parse_trees, asts>>
        /\ refresh' = [refresh EXCEPT ![uri] = Idle]
        /\ last' = [op |-> "refresh_ast", uri |-> uri, ok |-> TRUE]
        /\ UNCHANGED <<files, response, calls>>
        /\ UNCHANGED parser_vars

\* did_close that clears the two caches instead of removing one entry
did_close_clears_caches ==
    \E uri \in Uris :
        /\ calls < MaxCalls
        /\ ~Locked(uri)
        /\ files' = [files EXCEPT ![uri] = NoFile]
        /\ parse_trees' = [u \in Uris |-> None]
        /\ asts' = [u \in Uris |-> NoNode]
        /\ last' = [op |-> "did_close", uri |-> uri, ok |-> TRUE]
        /\ sent' = <<>>
        /\ replaced' = NotPublished
        /\ UNCHANGED <<refresh, published, response>>
        /\ calls' = calls + 1
        /\ UNCHANGED parser_vars

\* Backend::did_close
did_close ==
    \E uri \in Uris :
        /\ calls < MaxCalls
        /\ ~Locked(uri)
        /\ files' = [files EXCEPT ![uri] = NoFile]
        /\ parse_trees' = [parse_trees EXCEPT ![uri] = None]
        /\ asts' = [asts EXCEPT ![uri] = NoNode]
        /\ last' = [op |-> "did_close", uri |-> uri, ok |-> TRUE]
        /\ sent' = <<>>
        /\ replaced' = NotPublished
        /\ UNCHANGED <<refresh, published, response>>
        /\ calls' = calls + 1
        /\ UNCHANGED parser_vars

\* Backend::completion: nothing without a cached tree or without a file
completion_of(tree, file, pos) ==
    IF tree = None \/ file = NoFile THEN NoCompletions
    ELSE generate_path_completions(tree,
             get_offset_at(file, pos.line, pos.character))

completion ==
    \E uri \in Uris, pos \in EditPositions :
        /\ calls < MaxCalls
        /\ response' = completion_of(parse_trees[uri], files[uri], pos)
        /\ last' = [op |-> "completion", uri |-> uri, ok |-> TRUE]
        /\ sent' = <<>>
        /\ replaced' = NotPublished
        /\ UNCHANGED <<files, parse_trees, asts, refresh, published>>
        /\ calls' = calls + 1
        /\ UNCHANGED parser_vars

\* The Backend alone: the parser's variables stay as Backend handlers never
\* touch them
BackendInit ==
    /\ input = <<>>
    /\ pc = "backend"
    /\ parse_tree = None
    /\ errors = <<>>
    /\ ast = NoNode
    /\ self = None
    /\ position = 0
    /\ node = None
    /\ completions = NoCompletions
    /\ diagnostics = <<>>
    /\ server_tree = server_token(None)
    /\ server_errors = <<>>
    /\ Backend_new

BackendNext ==
    \/ did_open
    \/ did_change
    \/ refresh_ast_resume
    \/ did_close
    \/ completion

BackendSpec == BackendInit /\ [][BackendNext]_vars

----------------------------------------------------------------------------
(* Vocabulary of the properties: the lines of a text, read off the text    *)
(* itself and not off the parser.                                          *)

\* Offsets at which a line starts: 0 and the offset after each terminator
LineStarts(s) == {0} \cup { p + 1 : p \in { q \in 0..(Len(s) - 1) : s[q + 1] = "\n" } }

LineCount(s) == Cardinality(LineStarts(s))

\* Start of the k-th line, k in 1..LineCount(s)
LineStart(s, k) ==
    CHOOSE p \in LineStarts(s) :
        Cardinality({ q \in LineStarts(s) : q < p }) = k - 1

\* Offset of its terminator, or the length of s for the last line
LineEnd(s, k) ==
    IF k = LineCount(s) THEN Len(s) ELSE LineStart(s, k + 1) - 1

LineText(s, k) == SubSeq(s, LineStart(s, k) + 1, LineEnd(s, k))

IsCommentLine(t) == t # <<>> /\ t[1] = "#"

\* Two adjacent separators
HasDoubleSeparator(t) == \E i \in 1..(Len(t) - 1) : t[i] = "/" /\ t[i + 1] = "/"

\* A malformed line: a pattern line with two adjacent separators
Malformed(t) == ~IsCommentLine(t) /\ HasDoubleSeparator(t)

MalformedLines(s) == { k \in 1..LineCount(s) : Malformed(LineText(s, k)) }

\* A line with something in it other than whitespace
NonBlank(t) == \E i \in 1..Len(t) : t[i] # " "

\* A token moved d offsets to the right
RECURSIVE Shift(_, _)
Shift(t, d) ==
    [t EXCEPT !.start = @ + d, !.end = @ + d,
              !.children = [i \in 1..Len(t.children) |-> Shift(t.children[i], d)]]

\* The node of the k-th line of s when that line is parsed alone, at the
\* place of the line in s
AloneNode(s, k) == Shift(line(LineText(s, k), 0).toks[1], LineStart(s, k))

----------------------------------------------------------------------------
(* C1..C4: error recovery *)

\* C1: when a malformed line is followed by a newline, generate_from still
\* returns a tree, and the File's children hold, in source order, the node
\* of every later well-formed line with the children that line has when
\* parsed alone.
C1_RecoveryKeepsLaterLines ==
    pc = "generate_from" =>
        \A i \in MalformedLines(input) :
            i < LineCount(input) =>
                /\ parse_tree # None
                /\ Len(parse_tree.children) = LineCount(input)
                /\ \A j \in (i + 1)..LineCount(input) :
                       ~Malformed(LineText(input, j)) =>
                           parse_tree.children[j] = AloneNode(input, j)

\* C2: generate_from returns a tree for every input text.
C2_AlwaysATree == pc = "generate_from" => parse_tree # None

\* C3: a pattern line with two adjacent separators makes the parser report
\* at least one error, in servers/gitignore and in the older server crate.
C3_DoubleSeparatorIsAnError ==
    /\ pc = "generate_from" /\ MalformedLines(input) # {} => Len(errors) >= 1
    /\ pc = "server_parse" /\ MalformedLines(input) # {} => Len(server_errors) >= 1

KthMalformedLine(s, k) ==
    CHOOSE l \in MalformedLines(s) :
        Cardinality({ m \in MalformedLines(s) : m < l }) = k - 1

\* C4: the errors returned are one per malformed line, the k-th error inside
\* the k-th malformed line, so in source order; there is none exactly when
\* no line is malformed.
C4_OneErrorPerMalformedLine ==
    pc = "generate_from" =>
        /\ Len(errors) = Cardinality(MalformedLines(input))
        /\ (errors = <<>>) <=> (MalformedLines(input) = {})
        /\ \A k \in 1..Len(errors) :
               /\ LineStart(input, KthMalformedLine(input, k)) <= errors[k].start
               /\ errors[k].start < LineEnd(input, KthMalformedLine(input, k))
        /\ \A k \in 1..(Len(errors) - 1) : errors[k].start < errors[k + 1].start

\* Two errors were returned: one recovered, one for a later line.
C4_Witness == pc = "generate_from" /\ Len(errors) >= 2

----------------------------------------------------------------------------
(* C5: the AST of a text without malformed lines *)

\* x without the spaces at its two ends
RECURSIVE Strip(_)
Strip(x) ==
    IF x = <<>> THEN x
    ELSE IF Head(x) = " " THEN Strip(Tail(x))
    ELSE IF x[Len(x)] = " " THEN Strip(SubSeq(x, 1, Len(x) - 1))
    ELSE x

\* The pieces of t between its separators, in order
RECURSIVE Pieces(_)
Pieces(t) ==
    IF \A i \in 1..Len(t) : t[i] # "/" THEN <<t>>
    ELSE LET i == CHOOSE j \in 1..Len(t) :
                      t[j] = "/" /\ \A m \in 1..(j - 1) : t[m] # "/"
         IN  <<SubSeq(t, 1, i - 1)>> \o Pieces(SubSeq(t, i + 1, Len(t)))

RECURSIVE SegmentNodes(_)
SegmentNodes(ps) ==
    IF ps = <<>> THEN <<>>
    ELSE (IF Strip(Head(ps)) = <<>> THEN <<>>
          ELSE <<Node("Segment", Strip(Head(ps)), <<>>)>>)
         \o SegmentNodes(Tail(ps))

\* The AST Path expected of a pattern line: Negate for a leading '!', then
\* a Segment for each piece that is not empty once stripped
ExpectedPath(t) ==
    Node("Path", <<>>,
         IF t # <<>> /\ t[1] = "!"
         THEN <<Node("Negate", <<>>, <<>>)>> \o SegmentNodes(Pieces(Tail(t)))
         ELSE SegmentNodes(Pieces(t)))

\* Lines that are neither blank nor comments
NonBlankLines(s) ==
    { k \in 1..LineCount(s) :
        NonBlank(LineText(s, k)) /\ ~IsCommentLine(LineText(s, k)) }

\* Lines that are not comments and hold a character other than a separator
\* or whitespace
PatternLines(s) ==
    { k \in 1..LineCount(s) :
        /\ ~IsCommentLine(LineText(s, k))
        /\ \E i \in 1..Len(LineText(s, k)) : LineText(s, k)[i] \notin {"/", " "} }

KthPatternLine(s, k) ==
    CHOOSE l \in PatternLines(s) :
        Cardinality({ m \in PatternLines(s) : m < l }) = k - 1

\* C5 as stated: for a text with no malformed line, generate_from yields a
\* tree and no error, and the AST's File has exactly one Path child per
\* non-blank line (comment lines set aside).
C5_OnePathPerNonBlankLine ==
    /\ pc = "generate_from" /\ MalformedLines(input) = {} =>
           parse_tree # None /\ errors = <<>>
    /\ pc = "ast" /\ MalformedLines(input) = {} =>
           /\ ast.kind = "File"
           /\ \A k \in 1..Len(ast.children) : ast.children[k].kind = "Path"
           /\ Len(ast.children) = Cardinality(NonBlankLines(input))

\* C5 amended: for a text with no malformed line, generate_from yields a
\* tree and no error, and the AST's File has exactly one Path child per line
\* that is not a comment and holds a character other than '/' and
\* whitespace, in source order, each with that line's Negate and Segments.
C5_OnePathPerPatternLine ==
    /\ pc = "generate_from" /\ MalformedLines(input) = {} =>
           parse_tree # None /\ errors = <<>>
    /\ pc = "ast" /\ MalformedLines(input) = {} =>
           /\ ast.kind = "File"
           /\ Len(ast.children) = Cardinality(PatternLines(input))
           /\ \A k \in 1..Len(ast.children) :
                  ast.children[k] = ExpectedPath(LineText(input, KthPatternLine(input, k)))

\* An AST of two Paths or more, derived from a text with a line of
\* separators and whitespace only.
C5_Witness ==
    /\ pc = "ast"
    /\ MalformedLines(input) = {}
    /\ Len(ast.children) >= 2
    /\ NonBlankLines(input) # PatternLines(input)

----------------------------------------------------------------------------
(* C6..C8: completion *)

ABC == <<"a", "/", "b", "/", "c">>

\* C6 as stated: completion on "a/b/c" at offset 3 returns the single
\* suggestion "a/".
C6_SuggestsASlash ==
    pc = "completion" /\ input = ABC /\ position = 3 =>
        completions = [some |-> TRUE, items |-> <<CompletionItem(<<"a", "/">>)>>]

\* C6 amended: completion on "a/b/c" at offset 3 returns the single
\* suggestion "a/b".
C6_SuggestsASlashB ==
    pc = "completion" /\ input = ABC /\ position = 3 =>
        completions = [some |-> TRUE, items |-> <<CompletionItem(<<"a", "/", "b">>)>>]

C6_Witness == pc = "completion" /\ input = ABC /\ position = 3

\* The text of the children before the k-th: each Segment's value, '/' for
\* each Separator, nothing for Negate
RECURSIVE TypedBefore(_, _)
TypedBefore(children, k) ==
    IF k <= 1 THEN <<>>
    ELSE TypedBefore(children, k - 1) \o
         (IF children[k - 1].kind = "Segment" THEN children[k - 1].value
          ELSE IF children[k - 1].kind = "Separator" THEN <<"/">>
          ELSE <<>>)

\* The Path completion works on and the node it locates at the offset
CompletionLine == get_first_child_filtered(parse_tree, position)
CompletionNode == get_child_at_position(CompletionLine, position)

\* C7: when completion finds a Path and, among its children, the node at
\* the offset, it returns exactly one suggestion whose label, detail and
\* insert text are the text of the children before that node.
C7_SuggestionIsTextBeforeNode ==
    pc = "completion" /\ completions.some =>
        /\ Len(completions.items) = 1
        /\ completions.items[1].detail = completions.items[1].label
        /\ completions.items[1].insert_text = completions.items[1].label
        /\ \A k \in 1..Len(CompletionLine.children) :
               CompletionLine.children[k] = CompletionNode =>
                   completions.items[1].label = TypedBefore(CompletionLine.children, k)

\* A suggestion made at the third child or later of a negated Path.
C7_Witness ==
    /\ pc = "completion"
    /\ completions.some
    /\ completions.items[1].label # <<>>
    /\ \E k \in 3..Len(CompletionLine.children) :
           /\ CompletionLine.children[k] = CompletionNode
           /\ CompletionLine.children[1].kind = "Negate"

HalfOpenContains(t, p) ==
    \/ t.start <= p /\ p < t.end
    \/ t.start = t.end /\ p = t.start

ClosedContains(t, p) == t.start <= p /\ p <= t.end

MinOf(S) == CHOOSE x \in S : \A y \in S : x <= y

\* Indices of the File's Path children whose closed span holds the offset
PathsAround(tree, p) ==
    { i \in 1..Len(tree.children) :
        tree.children[i].kind = "Path" /\ ClosedContains(tree.children[i], p) }

\* C8 as stated: completion returns nothing exactly when no Path's
\* half-open span [start, end) contains the offset (a zero-width Path
\* containing its start only).
C8_NothingOutsideHalfOpenSpans ==
    pc = "completion" =>
        (completions.some <=>
            \E i \in 1..Len(parse_tree.children) :
                /\ parse_tree.children[i].kind = "Path"
                /\ HalfOpenContains(parse_tree.children[i], position))

\* C8 amended: completion uses the first Path in pre-order whose closed
\* span [start, end] contains the offset, and returns nothing exactly when
\* no Path's closed span contains it.
C8_FirstPathOfClosedSpan ==
    pc = "completion" =>
        /\ completions.some <=> PathsAround(parse_tree, position) # {}
        /\ completions.some =>
               CompletionLine =
                   parse_tree.children[MinOf(PathsAround(parse_tree, position))]

\* A suggestion made with the cursor at the end of a non-empty Path.
C8_Witness ==
    /\ pc = "completion"
    /\ completions.some
    /\ CompletionLine.end = position
    /\ CompletionLine.start < position

----------------------------------------------------------------------------
(* C9, C10: Token::get_child_at_position *)

\* C9: a zero-width child whose start is smaller than the offset is never
\* selected.
C9_ZeroWidthOnlyAtItsStart ==
    pc = "get_child_at_position" /\ has_children(self) /\ node # self =>
        ~(node.start = node.end /\ node.start < position)

\* C10: called on a File or Path, get_child_at_position returns the most
\* specific descendant whose span contains the offset (a zero-width one
\* containing its start), and the node it was called on when none of its
\* children does.
C10_MostSpecificContaining ==
    pc = "get_child_at_position" /\ has_children(self) =>
        /\ node # None
        /\ node # self => HalfOpenContains(node, position)
        /\ node = self =>
               \A i \in 1..Len(self.children) :
                   ~HalfOpenContains(self.children[i], position)
        /\ \A i \in 1..Len(node.children) :
               ~HalfOpenContains(node.children[i], position)

----------------------------------------------------------------------------
(* C11..C13: spans of the parse tree *)

\* The children of t lie inside t's span, sorted by start, none overlapping
\* the next
SpansOrdered(t) ==
    /\ \A i \in 1..Len(t.children) :
           /\ t.start <= t.children[i].start
           /\ t.children[i].start <= t.children[i].end
           /\ t.children[i].end <= t.end
    /\ \A i \in 1..(Len(t.children) - 1) :
           /\ t.children[i].start <= t.children[i + 1].start
           /\ t.children[i].end <= t.children[i + 1].start

RECURSIVE WellNested(_)
WellNested(t) ==
    SpansOrdered(t) /\ \A i \in 1..Len(t.children) : WellNested(t.children[i])

\* C11: in every tree returned, the children of every node are sorted by
\* start, pairwise non-overlapping and contained in the parent's span.
C11_ChildrenSortedDisjointContained ==
    pc = "generate_from" /\ parse_tree # None => WellNested(parse_tree)

\* A tree returned with an error recovered from, holding a Path of three
\* children or more.
C11_Witness ==
    /\ pc = "generate_from"
    /\ parse_tree # None
    /\ errors # <<>>
    /\ \E i \in 1..Len(parse_tree.children) :
           Len(parse_tree.children[i].children) >= 3

\* The first child starts at offset 0 and the last ends at the end of s
CoversEnds(tree, s) ==
    /\ tree.children # <<>>
    /\ tree.children[1].start = 0
    /\ tree.children[Len(tree.children)].end = Len(s)

\* C12 as stated: between the end of one child of the File and the start of
\* the next lies exactly one newline, the first child starts at offset 0
\* and the last ends at the end of the input.
C12_ContiguousModuloNewlines ==
    pc = "generate_from" /\ parse_tree # None =>
        /\ CoversEnds(parse_tree, input)
        /\ \A i \in 1..(Len(parse_tree.children) - 1) :
               /\ parse_tree.children[i + 1].start = parse_tree.children[i].end + 1
               /\ At(input, parse_tree.children[i].end) = "\n"

\* The text between offsets e and st is what recovery skipped: it starts at
\* the second of two adjacent separators and ends with the first newline
\* after it
SkippedByRecovery(s, e, st) ==
    /\ e >= 1 /\ At(s, e - 1) = "/" /\ At(s, e) = "/"
    /\ st > e + 1
    /\ At(s, st - 1) = "\n"
    /\ \A q \in e..(st - 2) : At(s, q) # "\n"

\* C12 amended: between the end of one child of the File and the start of
\* the next lies the newline that separated the two lines, preceded, when
\* the earlier line is malformed, by the rest of that line from the second
\* of its adjacent separators on, and nothing else; the first child starts
\* at offset 0 and the last ends at the end of the input.
C12_ContiguousModuloSkippedText ==
    pc = "generate_from" /\ parse_tree # None =>
        /\ CoversEnds(parse_tree, input)
        /\ \A i \in 1..(Len(parse_tree.children) - 1) :
               \/ /\ parse_tree.children[i + 1].start = parse_tree.children[i].end + 1
                  /\ At(input, parse_tree.children[i].end) = "\n"
               \/ SkippedByRecovery(input, parse_tree.children[i].end,
                                    parse_tree.children[i + 1].start)

\* A tree of three lines or more, one next to its neighbour and one after
\* text that recovery skipped.
C12_Witness ==
    /\ pc = "generate_from"
    /\ parse_tree # None
    /\ \E i, j \in 1..(Len(parse_tree.children) - 1) :
           /\ parse_tree.children[i + 1].start = parse_tree.children[i].end + 1
           /\ parse_tree.children[j + 1].start > parse_tree.children[j].end + 1

\* The Separator and Negate nodes of a tree, each with the Path holding it
MarkersOf(t) ==
    { <<t, t.children[j]>> :
        j \in { k \in 1..Len(t.children) :
                  t.children[k].kind \in {"Separator", "Negate"} } }

Markers(tree) ==
    UNION { MarkersOf(tree.children[i]) : i \in 1..Len(tree.children) }

\* The marker sits at its character: a '/', or the '!' that starts the Path
AtItsCharacter(s, m) ==
    \/ m[2].kind = "Separator" /\ At(s, m[2].start) = "/"
    \/ m[2].kind = "Negate" /\ At(s, m[2].start) = "!" /\ m[2].start = m[1].start

\* C13 as stated: every Separator and every Negate is zero-width, at the
\* offset of its '/' or of the leading '!'.
C13_MarkersAreZeroWidth ==
    pc = "generate_from" /\ parse_tree # None =>
        \A m \in Markers(parse_tree) :
            m[2].start = m[2].end /\ AtItsCharacter(input, m)

\* C13 amended: every Separator and every Negate spans exactly its one
\* character, the '/' or the leading '!': end = start + 1.
C13_MarkersSpanTheirCharacter ==
    pc = "generate_from" /\ parse_tree # None =>
        \A m \in Markers(parse_tree) :
            m[2].end = m[2].start + 1 /\ AtItsCharacter(input, m)

\* A tree with a Negate and a Separator.
C13_Witness ==
    /\ pc = "generate_from"
    /\ parse_tree # None
    /\ \E m, n \in Markers(parse_tree) :
           m[2].kind = "Negate" /\ n[2].kind = "Separator"

----------------------------------------------------------------------------
(* C14, C15: the text of segments and paths *)

SegmentsOf(t) ==
    { t.children[j] : j \in { k \in 1..Len(t.children) :
                                t.children[k].kind = "Segment" } }

\* The Segment nodes of a tree
Segments(tree) ==
    UNION { SegmentsOf(tree.children[i]) : i \in 1..Len(tree.children) }

\* The source text a token spans
SourceText(s, t) == SubSeq(s, t.start + 1, t.end)

\* The number of backslashes that end x
RECURSIVE TrailingBackslashes(_)
TrailingBackslashes(x) ==
    IF x # <<>> /\ x[Len(x)] = "\\"
    THEN 1 + TrailingBackslashes(SubSeq(x, 1, Len(x) - 1))
    ELSE 0

\* x without its trailing whitespace, a whitespace character escaped by a
\* backslash being kept
RECURSIVE WithoutTrailingUnescaped(_)
WithoutTrailingUnescaped(x) ==
    IF /\ x # <<>>
       /\ x[Len(x)] = " "
       /\ TrailingBackslashes(SubSeq(x, 1, Len(x) - 1)) % 2 = 0
    THEN WithoutTrailingUnescaped(SubSeq(x, 1, Len(x) - 1))
    ELSE x

\* C14: a Segment's value is its source text with only the trailing
\* unescaped whitespace removed: leading whitespace and backslash escapes
\* are kept, an escaped trailing space included.
C14_OnlyTrailingUnescapedTrimmed ==
    pc = "generate_from" /\ parse_tree # None =>
        \A t \in Segments(parse_tree) :
            t.value = WithoutTrailingUnescaped(SourceText(input, t))

\* The Path nodes of a tree
Paths(tree) ==
    { tree.children[i] : i \in { k \in 1..Len(tree.children) :
                                   tree.children[k].kind = "Path" } }

\* The pieces, each without its trailing unescaped whitespace, joined by '/'
RECURSIVE JoinTrimmed(_)
JoinTrimmed(ps) ==
    IF Len(ps) = 1 THEN WithoutTrailingUnescaped(ps[1])
    ELSE WithoutTrailingUnescaped(ps[1]) \o <<"/">> \o JoinTrimmed(Tail(ps))

\* The source text of a Path without its leading '!'
AfterNegate(x) == IF x # <<>> /\ x[1] = "!" THEN Tail(x) ELSE x

\* C15: for every Path of a tree returned, the text of its children in
\* order (each Segment's value, '/' for each Separator, nothing for Negate)
\* is the source text the Path spans, without the leading '!' and without
\* the trailing whitespace trimmed from each segment.
C15_RoundTrip ==
    pc = "generate_from" /\ parse_tree # None =>
        \A t \in Paths(parse_tree) :
            TypedBefore(t.children, Len(t.children) + 1)
                = JoinTrimmed(Pieces(AfterNegate(SourceText(input, t))))

----------------------------------------------------------------------------
(* C16..C18: the AST of a parse tree *)

\* A child of a Path that the AST keeps: a Negate, or a Segment whose value
\* is not empty
Semantic(t) == t.kind = "Negate" \/ (t.kind = "Segment" /\ t.value # <<>>)

\* The Paths of a tree with a child the AST keeps, by index
SemanticPaths(tree) ==
    { i \in 1..Len(tree.children) :
        /\ tree.children[i].kind = "Path"
        /\ \E j \in 1..Len(tree.children[i].children) :
               Semantic(tree.children[i].children[j]) }

\* C16: every Path of the AST has at least one child, and the AST's File has
\* one Path for each Path of the tree that has a Negate or a non-empty
\* Segment, the others being dropped.
C16_NoEmptyPathInAST ==
    pc = "ast" =>
        /\ ast.kind = "File"
        /\ \A k \in 1..Len(ast.children) :
               ast.children[k].kind = "Path" /\ ast.children[k].children # <<>>
        /\ Len(ast.children) = Cardinality(SemanticPaths(parse_tree))

\* An AST with a Path, derived from a tree with an error recovered from and
\* with a Path that has no child.
C16_Witness ==
    /\ pc = "ast"
    /\ errors # <<>>
    /\ ast.children # <<>>
    /\ \E i \in 1..Len(parse_tree.children) :
           parse_tree.children[i].kind = "Path"
               /\ parse_tree.children[i].children = <<>>

\* The AST node of a token the AST keeps
AsNode(t) ==
    IF t.kind = "Negate" THEN Node("Negate", <<>>, <<>>)
    ELSE Node("Segment", t.value, <<>>)

\* The AST nodes of the kept tokens of ts, in order
RECURSIVE Kept(_)
Kept(ts) ==
    IF ts = <<>> THEN <<>>
    ELSE (IF Semantic(Head(ts)) THEN <<AsNode(Head(ts))>> ELSE <<>>)
         \o Kept(Tail(ts))

KthSemanticPath(tree, k) ==
    CHOOSE i \in SemanticPaths(tree) :
        Cardinality({ j \in SemanticPaths(tree) : j < i }) = k - 1

NotAB == <<"!", "a", "/", "b">>

ABThenComment ==
    <<"a", "/", "b", "\n", "#", " ", "a", " ", "c", "o", "m", "m", "e", "n", "t">>

\* C17: the children of each AST Path are exactly the Negate and the
\* non-empty Segments of its Path in the tree, in source order; Separators
\* and Comments add nothing: "!a/b" gives [Negate, Segment a, Segment b]
\* and a comment line gives no node.
C17_KeepsNegateAndSegments ==
    pc = "ast" =>
        /\ Len(ast.children) = Cardinality(SemanticPaths(parse_tree))
        /\ \A k \in 1..Len(ast.children) :
               ast.children[k] =
                   Node("Path", <<>>,
                        Kept(parse_tree.children[KthSemanticPath(parse_tree, k)].children))
        /\ input = NotAB =>
               ast = Node("File", <<>>,
                          <<Node("Path", <<>>,
                                 <<Node("Negate", <<>>, <<>>),
                                   Node("Segment", <<"a">>, <<>>),
                                   Node("Segment", <<"b">>, <<>>)>>)>>)
        /\ input = ABThenComment =>
               ast = Node("File", <<>>,
                          <<Node("Path", <<>>,
                                 <<Node("Segment", <<"a">>, <<>>),
                                   Node("Segment", <<"b">>, <<>>)>>)>>)

\* The AST of "!a/b".
C17_Witness == pc = "ast" /\ input = NotAB

\* Lines that are empty, and lines of whitespace only
EmptyLines(s) == { k \in 1..LineCount(s) : LineText(s, k) = <<>> }

WhitespaceLines(s) ==
    { k \in 1..LineCount(s) : LineText(s, k) # <<>> /\ ~NonBlank(LineText(s, k)) }

\* C18 as stated: every empty line and every whitespace-only line is a Path
\* with zero children in the tree and adds no Path to the AST.
C18_BlankLinesAreEmptyPaths ==
    /\ pc = "generate_from" /\ parse_tree # None =>
           \A k \in EmptyLines(input) \cup WhitespaceLines(input) :
               /\ k <= Len(parse_tree.children)
               /\ parse_tree.children[k].kind = "Path"
               /\ parse_tree.children[k].children = <<>>
    /\ pc = "ast" =>
           Len(ast.children) <=
               LineCount(input)
                   - Cardinality(EmptyLines(input) \cup WhitespaceLines(input))

\* C18 amended: every empty line is a Path with zero children in the tree,
\* every whitespace-only line a Path whose only child is a Segment with the
\* empty value spanning the line; neither adds a Path to the AST.
C18_BlankLinesAddNothing ==
    /\ pc = "generate_from" /\ parse_tree # None =>
           /\ \A k \in EmptyLines(input) :
                  /\ k <= Len(parse_tree.children)
                  /\ parse_tree.children[k] =
                         Path(LineStart(input, k), LineStart(input, k), <<>>)
           /\ \A k \in WhitespaceLines(input) :
                  /\ k <= Len(parse_tree.children)
                  /\ parse_tree.children[k] =
                         Path(LineStart(input, k), LineEnd(input, k),
                              <<Segment(LineStart(input, k), LineEnd(input, k), <<>>)>>)
    /\ pc = "ast" =>
           /\ Len(ast.children) <=
                  LineCount(input)
                      - Cardinality(EmptyLines(input) \cup WhitespaceLines(input))
           /\ \A k \in EmptyLines(input) \cup WhitespaceLines(input) :
                  k \notin SemanticPaths(parse_tree)

\* A tree with an empty line, a whitespace-only line and a pattern.
C18_Witness ==
    /\ pc = "ast"
    /\ EmptyLines(input) # {}
    /\ WhitespaceLines(input) # {}
    /\ ast.children # <<>>

----------------------------------------------------------------------------
(* C19: comments *)

\* x holds the character c
Holds(x, c) == \E i \in 1..Len(x) : x[i] = c

\* The offsets inside the span of t at which s has a '#'
MarksIn(s, t) == { q \in t.start..(t.end - 1) : At(s, q) = "#" }

\* The '#' at offset q is text of a Segment of the Path t
InASegment(t, q) ==
    \E g \in SegmentsOf(t) : g.start <= q /\ q < g.end /\ Holds(g.value, "#")

\* C19: in the tree returned, the node of a line is a Comment exactly when
\* the line's first character is '#', and the Comment spans the line from
\* the '#' to its end; the node of any other line is a Path, and a '#'
\* inside it is text of one of its Segments.  The older crate's parser
\* makes the same choice between Comment and Path.
C19_CommentOnlyAtLineStart ==
    /\ pc = "generate_from" /\ parse_tree # None =>
           /\ Len(parse_tree.children) = LineCount(input)
           /\ \A k \in 1..LineCount(input) :
                  IF IsCommentLine(LineText(input, k))
                  THEN parse_tree.children[k] =
                           Comment(LineStart(input, k), LineEnd(input, k))
                  ELSE /\ parse_tree.children[k].kind = "Path"
                       /\ \A q \in MarksIn(input, parse_tree.children[k]) :
                              InASegment(parse_tree.children[k], q)
    /\ pc = "server_parse" /\ server_tree.kind = "File" =>
           /\ Len(server_tree.children) = LineCount(input)
           /\ \A k \in 1..LineCount(input) :
                  server_tree.children[k].kind =
                      IF IsCommentLine(LineText(input, k)) THEN "Comment" ELSE "Path"

\* A tree with a Comment that is not the first line, and a Path with a '#'
\* after its first character.
C19_Witness ==
    /\ pc = "generate_from"
    /\ parse_tree # None
    /\ \E i, j \in 1..Len(parse_tree.children) :
           /\ parse_tree.children[i].kind = "Comment"
           /\ parse_tree.children[i].start > 0
           /\ parse_tree.children[j].kind = "Path"
           /\ MarksIn(input, parse_tree.children[j]) # {}

----------------------------------------------------------------------------
(* C20: the cached tree after a refresh *)

\* The document is open and no refresh of it is under way
Refreshed(u) == files[u] # NoFile /\ refresh[u] = Idle

\* C20: once the refresh that follows did_open or an applied did_change is
\* complete, the cached parse tree of the document is the parse of the
\* buffer's current content, also when the content is malformed.
C20_CachedTreeIsOfCurrentContent ==
    \A u \in Uris :
        Refreshed(u) =>
            parse_trees[u] = ParseTree_generate_from(get_content(files[u])).out

----------------------------------------------------------------------------
(* C21: the diagnostics a refresh publishes *)

\* The step published diagnostics
Publishes(n) == n.method = "textDocument/publishDiagnostics"

\* C21: a handler that opened a document or applied changes to it leaves a
\* refresh of it under way; the step that completes a refresh sends the
\* client exactly one notification, a set of diagnostics for the document
\* refreshed, which is then all the client holds for it; the set is empty
\* exactly when no line of the buffer is malformed; no other step publishes.
C21_RefreshPublishesOneSetThatReplaces ==
    /\ last.op = "did_open" \/ (last.op = "did_change" /\ last.ok) =>
           refresh[last.uri].state = "publish_diagnostics"
    /\ last.op = "refresh_ast" =>
           /\ Len(sent) = 1
           /\ Publishes(sent[1])
           /\ sent[1].uri = last.uri
           /\ published[last.uri] =
                  [some |-> TRUE, diagnostics |-> sent[1].diagnostics]
           /\ (sent[1].diagnostics = <<>>) <=>
                  (MalformedLines(get_content(files[last.uri])) = {})
    /\ last.op # "refresh_ast" => \A i \in 1..Len(sent) : ~Publishes(sent[i])

\* A refresh published an empty set in place of a set with diagnostics.
C21_Witness ==
    /\ last.op = "refresh_ast"
    /\ sent # <<>>
    /\ sent[1].diagnostics = <<>>
    /\ replaced.some
    /\ replaced.diagnostics # <<>>

----------------------------------------------------------------------------
(* C22: did_change of a document that is not open *)

\* C22: did_change fails exactly when the document is not open; the step
\* that fails leaves every buffer, every cached tree and AST, every refresh
\* and what the client holds as they were, starts no refresh of the
\* document, and sends the client the logged error and nothing else.
C22_ChangeOfUnopenedDocumentChangesNothing ==
    [][ last'.op = "did_change" =>
          /\ last'.ok <=> (files[last'.uri] # NoFile)
          /\ ~last'.ok =>
                 /\ files' = files
                 /\ parse_trees' = parse_trees
                 /\ asts' = asts
                 /\ published' = published
                 /\ refresh' = refresh
                 /\ refresh'[last'.uri] = Idle
                 /\ sent' = <<log_message(last'.uri)>> ]_vars

\* did_change of a document that is not open failed while another document
\* was open, its tree cached and its diagnostics published.
C22_Witness ==
    /\ last.op = "did_change"
    /\ ~last.ok
    /\ files[last.uri] = NoFile
    /\ \E b \in Uris :
           /\ files[b] # NoFile
           /\ parse_trees[b] # None
           /\ published[b].some

----------------------------------------------------------------------------
(* C23: the diagnostics of the errors *)

\* pos is the place of the offset in s: the line the offset is on, lines
\* counted from 0, and the distance of the offset from the start of that line
AtOffset(s, pos, offset) ==
    /\ pos.line + 1 \in 1..LineCount(s)
    /\ LineStart(s, pos.line + 1) <= offset
    /\ offset <= LineEnd(s, pos.line + 1)
    /\ pos.character = offset - LineStart(s, pos.line + 1)

\* C23: Diagnostics::generate returns one Diagnostic per error, in the order
\* of the errors, each with severity ERROR, the source "Gitignore Ultimate",
\* the message of its error, and a range from the position of the start of
\* the error's span to the position of its end.
C23_OneDiagnosticPerError ==
    pc = "diagnostics" =>
        /\ Len(diagnostics) = Len(errors)
        /\ \A i \in 1..Len(errors) :
               /\ diagnostics[i].severity = "ERROR"
               /\ diagnostics[i].source = "Gitignore Ultimate"
               /\ diagnostics[i].message = to_string(errors[i])
               /\ AtOffset(input, diagnostics[i].range.start, errors[i].start)
               /\ AtOffset(input, diagnostics[i].range.end, errors[i].end)

\* Two diagnostics, the second on a later line than the first.
C23_Witness ==
    /\ pc = "diagnostics"
    /\ Len(diagnostics) >= 2
    /\ diagnostics[2].range.start.line > diagnostics[1].range.start.line
    /\ diagnostics[1].range.end.character > diagnostics[1].range.start.character

----------------------------------------------------------------------------
(* C24: the caches hold entries of open documents only *)

\* The document has a buffer in the workspace
Open(u) == files[u] # NoFile

\* No refresh waits at its await; every other handler runs in one step
NoHandlerInFlight == \A u \in Uris : refresh[u] = Idle

\* C24: when no handler is in flight, a document that is not open has no
\* cached parse tree and no cached AST; after did_close the document has no
\* buffer and neither entry; a refresh completes only for a document that
\* is open; completion for a document that is not open returns nothing.
C24_CachedOnlyWhileOpen ==
    /\ NoHandlerInFlight =>
           \A u \in Uris :
               ~Open(u) => parse_trees[u] = None /\ asts[u] = NoNode
    /\ last.op = "did_close" =>
           /\ ~Open(last.uri)
           /\ parse_trees[last.uri] = None
           /\ asts[last.uri] = NoNode
    /\ last.op = "refresh_ast" => Open(last.uri)
    /\ last.op = "completion" /\ ~Open(last.uri) => ~response.some

\* Completion was asked for a document that had been opened, refreshed
\* without errors, so cached, and then closed.
C24_Witness ==
    /\ NoHandlerInFlight
    /\ last.op = "completion"
    /\ ~Open(last.uri)
    /\ published[last.uri].some
    /\ published[last.uri].diagnostics = <<>>

----------------------------------------------------------------------------
(* C25: documents are independent *)

\* The documents that are open
OpenDocuments == { u \in Uris : Open(u) }

\* C25: a step of a handler or of a refresh for a document leaves the
\* buffer, the cached parse tree and the cached AST of every other document
\* as they were; the set of open documents gains that document in did_open,
\* loses it in did_close, and is otherwise the same.
C25_DocumentsAreIndependent ==
    [][ /\ \A b \in Uris \ {last'.uri} :
               /\ files'[b] = files[b]
               /\ parse_trees'[b] = parse_trees[b]
               /\ asts'[b] = asts[b]
        /\ OpenDocuments' =
               IF last'.op = "did_open" THEN OpenDocuments \cup {last'.uri}
               ELSE IF last'.op = "did_close" THEN OpenDocuments \ {last'.uri}
               ELSE OpenDocuments ]_vars

\* Two documents are open and cached, and the last step completed the
\* refresh of one of them after an edit of it.
C25_Witness ==
    /\ last.op = "refresh_ast"
    /\ get_content(files[last.uri]) \notin OpenTexts
    /\ \A u \in Uris : Open(u) /\ parse_trees[u] # None /\ asts[u] # NoNode
    /\ \E b \in Uris \ {last.uri} :
           get_content(files[b]) # get_content(files[last.uri])

====
